---- MODULE Spec2Model ----
(***************************************************************************)
(* A model of smmap's memory-map managers (smmap/mman.py) and of the       *)
(* sliding buffer built on them (smmap/buf.py).                            *)
(*                                                                         *)
(* Objects with identity (FileInfo, MemmapRegion, cursors) carry a number  *)
(* as identity; a new object takes the least number no live reference      *)
(* uses.  The three indexes of the manager are the variables               *)
(* ix_path_finfo, ix_reg_mmap (a sequence: the LRU order of the            *)
(* OrderedDict, least recently used first) and ix_cur_reg.                 *)
(* Offsets are scaled: the allocation granularity is 2 bytes.              *)
(***************************************************************************)
EXTENDS Integers, Sequences, FiniteSets, TLC

(* ------------------------------ bounds -------------------------------- *)
\* size of the file at path 1 (the file at path 2 holds 2 bytes)
MaxFileSize == 5
\* most regions open at the same time
MaxRegions == 2

(* ------------------------- program constants -------------------------- *)
\* mmap.ALLOCATIONGRANULARITY, scaled down from 4096
ALLOCATIONGRANULARITY == 2

\* the file paths the clients use
Paths == {1, 2}
\* os.stat(path).st_size, fixed while the file is mapped
file_size == [p \in Paths |-> IF p = 1 THEN MaxFileSize ELSE 2]
\* the byte at offset k of file p (distinct for distinct places)
file_byte(p, k) == 100 * p + k
\* the file's bytes [a, b)
file_bytes(p, a, b) == [k \in 1..(b - a) |-> file_byte(p, a + k - 1)]

\* the managers the clients construct:
\* <<class, window_size, max_memory_size, max_open_handles>>
Managers == {<<"Tiling", 2, 100, 100>>, <<"Tiling", 2, 100, 2>>,
             <<"Tiling", 2, 100, 1>>, <<"Tiling", 2, 6, 100>>,
             <<"Tiling", 3, 100, 100>>, <<"Tiling", 0, 100, 100>>,
             <<"Greedy", 0, 100, 100>>, <<"Greedy", 0, 100, 1>>,
             <<"Greedy", 0, 6, 100>>, <<"Greedy", 3, 100, 100>>}
\* the managers the buffers are built on
BufManagers == {<<"Tiling", 2, 100, 100>>, <<"Tiling", 2, 100, 1>>,
                <<"Tiling", 2, 6, 100>>, <<"Greedy", 0, 100, 100>>}
\* the sizes the clients request (0: as large as possible)
RequestSizes == {0, 2}

VARIABLES
    kind,               \* which manager class was constructed
    window_size,        \* MemmapManager.window_size
    max_memory_size,    \* MemmapManager.max_memory_size
    max_regions_count,  \* MemmapManager.max_regions_count
    ix_path_finfo,      \* {path <-> finfo}: path -> finfo identity, NoFinfo if absent
    ix_reg_mmap,        \* {region <-> mmap}: sequence of regions in LRU order
    ix_cur_reg,         \* {cursor --> region}: cursor identity -> cursor record
    touched,            \* history: region identities, least recently touched first
    buf,                \* the SlidingWindowMapBuffer under test, NoBuf if none
    PY3,                \* whether the interpreter is Python 3
    closed,             \* MemmapManager.closed: close() set the indexes to None
    relation,           \* the Relation under test, NoRelation if none
    win,                \* the _MapWindow under test and its arguments, NoWin if none
    last                \* history: the last operation, its arguments and outcome

config == <<kind, window_size, max_memory_size, max_regions_count>>
vars == <<kind, window_size, max_memory_size, max_regions_count,
          ix_path_finfo, ix_reg_mmap, ix_cur_reg, touched, buf, PY3, closed,
          relation, win, last>>

NoFinfo == 0
NoRegion == [id |-> 0, finfo |-> 0, path |-> 0, ofs |-> 0, size |-> 0]
NoCursor == 0
NoBuf == [path |-> 0, ofs |-> 0, size |-> 0, c |-> 0]
\* win: w is the window, window and max_size are the arguments of its calls,
\* calls counts them; history: start is w as constructed, prev is w before the
\* latest call
NoWin == [w |-> [ofs |-> 0, size |-> 0], window |-> [ofs |-> 0, size |-> 0],
          max_size |-> 0, calls |-> 0, start |-> [ofs |-> 0, size |-> 0],
          prev |-> [ofs |-> 0, size |-> 0]]

Min(a, b) == IF a < b THEN a ELSE b
Max(a, b) == IF a > b THEN a ELSE b
Range(s) == {s[i] : i \in DOMAIN s}
\* least positive number not in S
LeastFree(S) == CHOOSE i \in 1..(Cardinality(S) + 1) :
                    i \notin S /\ \A j \in 1..(i - 1) : j \in S

\* F applied to v: names a value that the steps after it read
With(v, F(_)) == F(v)

RECURSIVE SumSizes(_)
SumSizes(s) == IF s = <<>> THEN 0 ELSE Head(s).size + SumSizes(Tail(s))

\* the manager's indexes as one value
\* (touched is history kept beside them: the order of creation and binding)
Mman == [ix_path_finfo |-> ix_path_finfo, ix_reg_mmap |-> ix_reg_mmap,
         ix_cur_reg |-> ix_cur_reg, touched |-> touched]

(* ----------------------------- util.py -------------------------------- *)
\* a hit that leaves the order as it is
hit_keeps_order(seq, rid) == seq

\* Relation.hit on ix_reg_mmap: move the key to the most-recent end
hit(seq, rid) ==
    SelectSeq(seq, LAMBDA r : r.id # rid) \o SelectSeq(seq, LAMBDA r : r.id = rid)

\* Relation.take on ix_reg_mmap: the index without the key
take_region(seq, rid) == SelectSeq(seq, LAMBDA r : r.id # rid)

\* None, as a key or a value of a Relation
None == 0
\* Relation.MISSING
MISSING == -1
\* the keys and the values the clients of a Relation use
RelKeys == {None, 1, 2}
RelValues == {None, 1, 2}

\* a Relation: rel and inv are ordered dicts, written as sequences of
\* entries in insertion order (inv is read only when one2one holds, it is
\* None otherwise); hooked tells whether on_put_error and on_take_error are
\* set; rollback_copy is the snapshot __enter__ took, at_entry is history:
\* the contents when the scope was entered
NoCopy == [taken |-> FALSE, rel |-> <<>>, inv |-> <<>>]
NoRelation == [one2one |-> FALSE, null_keys |-> FALSE, null_values |-> FALSE,
               hooked |-> FALSE, rel |-> <<>>, inv |-> <<>>,
               rollback_copy |-> NoCopy, at_entry |-> NoCopy]

\* dict.get(k, Relation.MISSING)
dict_get(d, k) ==
    IF \E i \in DOMAIN d : d[i].k = k
    THEN d[CHOOSE i \in DOMAIN d : d[i].k = k].v
    ELSE MISSING
\* d[k] = v on an ordered dict: a new key goes to the end
dict_set(d, k, v) ==
    IF \E i \in DOMAIN d : d[i].k = k
    THEN [i \in DOMAIN d |-> IF d[i].k = k THEN [k |-> k, v |-> v] ELSE d[i]]
    ELSE Append(d, [k |-> k, v |-> v])
\* del d[k]
dict_del(d, k) == SelectSeq(d, LAMBDA e : e.k # k)
\* OrderedDict.move_to_end(k)
move_to_end(d, k) ==
    SelectSeq(d, LAMBDA e : e.k # k) \o SelectSeq(d, LAMBDA e : e.k = k)

\* a hook like the tests' wrap_ex: it raises ValueError
wrap_ex(r) == [r |-> r, err |-> "ValueError"]
\* suppress(Exception).__exit__: the error raised inside the block is dropped
suppress(res) == [res EXCEPT !.err = "ok"]
\* the finally clause of put and take when ok is False: the hook, if set,
\* runs under suppress(Exception), and the error in flight goes on
not_ok(r, err, v) ==
    LET hooked == IF r.hooked THEN suppress(wrap_ex(r)) ELSE [r |-> r, err |-> "ok"]
    IN  [r |-> hooked.r, err |-> err, v |-> v]

\* a put that replaces the value of a key that is already mapped
Relation_put_overwrites(r, k, v) ==
    IF ~r.null_keys /\ k = None THEN not_ok(r, "KeyError", MISSING)
    ELSE IF ~r.null_values /\ v = None THEN not_ok(r, "KeyError", MISSING)
    ELSE IF r.one2one /\ dict_get(r.inv, v) # MISSING
    THEN not_ok(r, "KeyError", MISSING)
    ELSE [r |-> [r EXCEPT !.rel = dict_set(@, k, v),
                          !.inv = IF r.one2one THEN dict_set(@, v, k) ELSE @],
          err |-> "ok", v |-> MISSING]

\* Relation.put
Relation_put(r, k, v) ==
    IF ~r.null_keys /\ k = None THEN not_ok(r, "KeyError", MISSING)
    ELSE IF ~r.null_values /\ v = None THEN not_ok(r, "KeyError", MISSING)
    ELSE IF dict_get(r.rel, k) # MISSING THEN not_ok(r, "KeyError", MISSING)
    ELSE IF r.one2one /\ dict_get(r.inv, v) # MISSING
    THEN not_ok(r, "KeyError", MISSING)
    ELSE [r |-> [r EXCEPT !.rel = dict_set(@, k, v),
                          !.inv = IF r.one2one THEN dict_set(@, v, k) ELSE @],
          err |-> "ok", v |-> MISSING]

\* Relation.take; "if inverse" holds for a non-empty inverse
Relation_take(r, k) ==
    LET v == dict_get(r.rel, k)
        inverse == r.one2one /\ r.inv # <<>>
        kk == dict_get(r.inv, v)
    IN  IF v = MISSING THEN not_ok(r, "KeyError", v)
        ELSE IF inverse /\ kk = MISSING THEN not_ok(r, "KeyError", v)
        ELSE IF inverse /\ k # kk THEN not_ok(r, "KeyError", v)
        ELSE [r |-> [r EXCEPT !.rel = dict_del(@, k),
                              !.inv = IF inverse THEN dict_del(@, v) ELSE @],
              err |-> "ok", v |-> v]

\* Relation.hit
Relation_hit(r, k) ==
    IF dict_get(r.rel, k) = MISSING THEN [r |-> r, err |-> "KeyError"]
    ELSE [r |-> [r EXCEPT !.rel = move_to_end(@, k)], err |-> "ok"]

\* Relation.__setitem__: written to rel alone
Relation_setitem(r, k, v) == [r EXCEPT !.rel = dict_set(@, k, v)]
\* Relation.clear: rel alone is emptied
Relation_clear(r) == [r EXCEPT !.rel = <<>>]

\* Relation.__enter__
Relation_enter(r) ==
    [r EXCEPT !.rollback_copy = [taken |-> TRUE, rel |-> r.rel,
                                 inv |-> IF r.one2one THEN r.inv ELSE <<>>]]

\* an exit that keeps what the scope did
Relation_exit_keeps(r, exc_type) == [r EXCEPT !.rollback_copy = NoCopy]

\* Relation.__exit__
Relation_exit(r, exc_type) ==
    IF exc_type
    THEN [r EXCEPT !.rel = r.rollback_copy.rel, !.inv = r.rollback_copy.inv,
                   !.rollback_copy = NoCopy]
    ELSE [r EXCEPT !.rollback_copy = NoCopy]

(* ---------------------------- _MapWindow ------------------------------ *)
MapWindow(ofs, size) == [ofs |-> ofs, size |-> size]
from_region(r) == MapWindow(r.ofs, r.size)
ofs_end(w) == w.ofs + w.size

align_to_mmap(num, round_up) ==
    LET res == (num \div ALLOCATIONGRANULARITY) * ALLOCATIONGRANULARITY
    IN  IF round_up /\ res # num THEN res + ALLOCATIONGRANULARITY ELSE res

\* a window left where the request put it
align_keeps_start(w) == w

align(w) ==
    LET nofs == align_to_mmap(w.ofs, FALSE)
    IN  MapWindow(nofs, w.size + (w.ofs - nofs))

extend_left_to(w, window, max_size) ==
    LET rofs0 == w.ofs - ofs_end(window)
        nsize == rofs0 + w.size
        rofs == rofs0 - (nsize - Min(nsize, max_size))
    IN  MapWindow(w.ofs - rofs, w.size + rofs)

\* an extension to the right that max_size does not cap
extend_right_to_uncapped(w, window, max_size) ==
    MapWindow(w.ofs, w.size + (window.ofs - ofs_end(w)))

extend_right_to(w, window, max_size) ==
    MapWindow(w.ofs, Min(w.size + (window.ofs - ofs_end(w)), max_size))

\* includes_ofs of a region (MapRegion.includes_ofs in mwindow.py)
includes_ofs(r, ofs) == r.ofs <= ofs /\ ofs < r.ofs + r.size

(* --------------------------- MemmapManager ---------------------------- *)
\* a lookup that never finds the file's regions
regions_for_finfo_finds_none(m, fi) == <<>>
regions_for_finfo(m, fi) == SelectSeq(m.ix_reg_mmap, LAMBDA r : r.finfo = fi)
mapped_memory_size(m) == SumSizes(m.ix_reg_mmap)
num_open_regions(m) == Len(m.ix_reg_mmap)
used_regions(m) == {m.ix_cur_reg[c].region : c \in DOMAIN m.ix_cur_reg}
num_used_regions(m) == Cardinality(used_regions(m))
num_open_cursors(m) == Cardinality(DOMAIN m.ix_cur_reg)
\* num_open_files: the regions whose FileInfo equals (as a tuple of path and
\* size) a value of ix_path_finfo
num_open_files(m) ==
    Cardinality({i \in DOMAIN m.ix_reg_mmap :
                    m.ix_path_finfo[m.ix_reg_mmap[i].path] # NoFinfo})
region_ids(m) == {r.id : r \in Range(m.ix_reg_mmap)}
region_by_id(m, rid) == CHOOSE r \in Range(m.ix_reg_mmap) : r.id = rid

\* _release_region: take the region, take the path when it was the finfo's
\* last region, close the mmap; a failing take rolls both indexes back
release_region(m, rid) ==
    LET r == region_by_id(m, rid)
        taken == [m EXCEPT !.ix_reg_mmap = take_region(@, rid),
                           !.touched = SelectSeq(@, LAMBDA x : x # rid)]
    IN  IF regions_for_finfo(taken, r.finfo) # <<>>
        THEN [m |-> taken, err |-> "ok"]
        ELSE IF m.ix_path_finfo[r.path] = NoFinfo
        THEN [m |-> m, err |-> "KeyError"]
        ELSE [m |-> [taken EXCEPT !.ix_path_finfo[r.path] = NoFinfo], err |-> "ok"]

\* a release that leaves the indexes as the takes made them when the mmap
\* refuses to close
release_region_keeps_takes(m, rid, close_fails) ==
    With(release_region(m, rid), LAMBDA rel :
        IF rel.err = "ok" /\ close_fails
        THEN [m |-> rel.m, err |-> "Exception"]
        ELSE rel)

\* _release_region with an mmap that may refuse to close: both Relations are
\* entered before the takes (__enter__ copies rel and inv), memmap.close() is
\* the last step, and its exception leaves the ExitStack through __exit__ of
\* both Relations, which put the copies back
release_region_closing(m, rid, close_fails) ==
    LET rollback_copy == [ix_path_finfo |-> m.ix_path_finfo,
                          ix_reg_mmap |-> m.ix_reg_mmap,
                          touched |-> m.touched]
    IN  With(release_region(m, rid), LAMBDA rel :
            IF rel.err = "ok" /\ close_fails
            THEN [m |-> [rel.m EXCEPT
                            !.ix_path_finfo = rollback_copy.ix_path_finfo,
                            !.ix_reg_mmap = rollback_copy.ix_reg_mmap,
                            !.touched = rollback_copy.touched],
                  err |-> "Exception"]
            ELSE rel)

\* a loop that does not pass over the regions in use
RECURSIVE purge_loop_evicts_used(_, _, _, _, _)
purge_loop_evicts_used(m, todo, used, mem_limit, victims) ==
    IF todo = <<>> THEN [m |-> m, victims |-> victims, err |-> "ok"]
    ELSE IF mapped_memory_size(m) < mem_limit
            /\ num_open_regions(m) < max_regions_count
    THEN [m |-> m, victims |-> victims, err |-> "ok"]
    ELSE LET rel == release_region(m, Head(todo))
         IN  IF rel.err # "ok"
             THEN [m |-> rel.m, victims |-> victims, err |-> rel.err]
             ELSE purge_loop_evicts_used(rel.m, Tail(todo), used, mem_limit,
                                         Append(victims, Head(todo)))

\* a loop with the test for regions in use inverted
RECURSIVE purge_loop_skips_unused(_, _, _, _, _)
purge_loop_skips_unused(m, todo, used, mem_limit, victims) ==
    IF todo = <<>> THEN [m |-> m, victims |-> victims, err |-> "ok"]
    ELSE IF Head(todo) \notin used
    THEN purge_loop_skips_unused(m, Tail(todo), used, mem_limit, victims)
    ELSE IF mapped_memory_size(m) < mem_limit
            /\ num_open_regions(m) < max_regions_count
    THEN [m |-> m, victims |-> victims, err |-> "ok"]
    ELSE LET rel == release_region(m, Head(todo))
         IN  IF rel.err # "ok"
             THEN [m |-> rel.m, victims |-> victims, err |-> rel.err]
             ELSE purge_loop_skips_unused(rel.m, Tail(todo), used, mem_limit,
                                          Append(victims, Head(todo)))

\* the loop of _purge_lru_regions over the copied key list
RECURSIVE purge_loop(_, _, _, _, _)
purge_loop(m, todo, used, mem_limit, victims) ==
    IF todo = <<>> THEN [m |-> m, victims |-> victims, err |-> "ok"]
    ELSE IF Head(todo) \in used
    THEN purge_loop(m, Tail(todo), used, mem_limit, victims)
    ELSE IF mapped_memory_size(m) < mem_limit
            /\ num_open_regions(m) < max_regions_count
    THEN [m |-> m, victims |-> victims, err |-> "ok"]
    ELSE LET rel == release_region(m, Head(todo))
         IN  IF rel.err # "ok"
             THEN [m |-> rel.m, victims |-> victims, err |-> rel.err]
             ELSE purge_loop(rel.m, Tail(todo), used, mem_limit,
                             Append(victims, Head(todo)))

\* a pass whose memory limit forgets the size that is about to be mapped
purge_lru_regions_ignores_size(m, size_to_free) ==
    LET mem_limit == IF size_to_free # 0 THEN max_memory_size ELSE 0
        used == used_regions(m)
    IN  With(purge_loop(m, [i \in DOMAIN m.ix_reg_mmap |-> m.ix_reg_mmap[i].id],
                        used, mem_limit, <<>>),
             LAMBDA run :
                [m |-> run.m, err |-> run.err, num_found |-> Len(run.victims),
                 passes |-> <<[unref |-> SelectSeq(m.touched,
                                                   LAMBDA x : x \notin used),
                               victims |-> run.victims]>>])

\* _purge_lru_regions; beside the code's result (num_found) the pass
\* records which regions were unreferenced when it began, oldest touch
\* first, and which regions it closed, in the order it closed them
purge_lru_regions(m, size_to_free) ==
    LET mem_limit == IF size_to_free # 0 /\ max_memory_size - size_to_free # 0
                     THEN max_memory_size - size_to_free ELSE 0
        used == used_regions(m)
    IN  With(purge_loop(m, [i \in DOMAIN m.ix_reg_mmap |-> m.ix_reg_mmap[i].id],
                        used, mem_limit, <<>>),
             LAMBDA run :
                [m |-> run.m, err |-> run.err, num_found |-> Len(run.victims),
                 passes |-> <<[unref |-> SelectSeq(m.touched,
                                                   LAMBDA x : x \notin used),
                               victims |-> run.victims]>>])
\* no eviction pass was needed
NotPurged(m) == [m |-> m, err |-> "ok", num_found |-> 0, passes |-> <<>>]

\* _open_region: map [ofs, ofs + size) of the file (to its end when size is
\* 0) and register the region at the most-recent end of ix_reg_mmap;
\* mmap_fails is the operating system refusing the mapping
open_region(m, fi, path, ofs, size, mmap_fails) ==
    LET avail0 == file_size[path] - ofs
        avail_size == IF size > 0 THEN Min(avail0, size) ELSE avail0
        region == [id |-> LeastFree(region_ids(m) \cup used_regions(m)),
                   finfo |-> fi, path |-> path, ofs |-> ofs, size |-> avail_size]
    IN  IF mmap_fails
        THEN [m |-> m, r |-> NoRegion, err |-> "OSError"]
        ELSE [m |-> [m EXCEPT !.ix_reg_mmap = Append(@, region),
                              !.touched = Append(@, region.id)],
              r |-> region, err |-> "ok"]

\* what _obtain_region hands back: the indexes, the region it selected (sel,
\* before the closing assert), the region it returned (r) and the error raised
Raised(m, err, sel, passes) ==
    [m |-> m, r |-> NoRegion, sel |-> sel, err |-> err, passes |-> passes]
\* the closing "assert r.includes_ofs(offset)" of _obtain_region
Asserted(m, r, offset, passes) ==
    IF includes_ofs(r, offset)
    THEN [m |-> m, r |-> r, sel |-> r, err |-> "ok", passes |-> passes]
    ELSE Raised(m, "AssertionError", r, passes)

\* sorted(rlist, key=lambda r: r.ofs): a stable insertion sort
RECURSIVE insert_by_ofs(_, _)
insert_by_ofs(sorted, r) ==
    IF sorted = <<>> THEN <<r>>
    ELSE IF Head(sorted).ofs <= r.ofs
    THEN <<Head(sorted)>> \o insert_by_ofs(Tail(sorted), r)
    ELSE <<r>> \o sorted
RECURSIVE sorted_by_ofs(_)
sorted_by_ofs(s) ==
    IF s = <<>> THEN <<>>
    ELSE insert_by_ofs(sorted_by_ofs(SubSeq(s, 1, Len(s) - 1)), s[Len(s)])

\* the bisection of TilingMemmapManager._obtain_region over rlist[lo:hi]
\* (0-based as in the code): the index of a region including offset, or -1
RECURSIVE bisect(_, _, _, _)
bisect(rlist, lo, hi, offset) ==
    IF ~(lo < hi) THEN -1
    ELSE LET mid == (lo + hi) \div 2
         IN  IF rlist[mid + 1].ofs <= offset
             THEN IF includes_ofs(rlist[mid + 1], offset) THEN mid
                  ELSE bisect(rlist, mid + 1, hi, offset)
             ELSE bisect(rlist, lo, mid, offset)

\* "find insert position" of TilingMemmapManager._obtain_region (0-based)
find_insert_pos(rlist, offset) ==
    LET len_regions == Len(rlist)
        greater == {i \in 0..(len_regions - 1) : rlist[i + 1].ofs > offset}
    IN  IF len_regions = 1
        THEN IF rlist[1].ofs <= offset THEN 1 ELSE 0
        ELSE IF greater = {} THEN len_regions
        ELSE CHOOSE i \in greater : \A j \in greater : i <= j

\* the window TilingMemmapManager._obtain_region maps for a request that no
\* open region of rlist serves
tiling_window(rlist, fsize, offset, avail_size) ==
    LET len_regions == Len(rlist)
        insert_pos == find_insert_pos(rlist, offset)
        right == IF insert_pos = 0
                 THEN IF len_regions # 0 THEN from_region(rlist[insert_pos + 1])
                      ELSE MapWindow(fsize, 0)
                 ELSE IF insert_pos # len_regions
                 THEN from_region(rlist[insert_pos + 1])
                 ELSE MapWindow(fsize, 0)
        left == IF insert_pos = 0 THEN MapWindow(0, 0)
                ELSE from_region(rlist[insert_pos])
        mid1 == extend_left_to(MapWindow(offset, avail_size), left, window_size)
        mid2 == extend_right_to(mid1, right, window_size)
        mid3 == align(mid2)
    IN  IF ofs_end(mid3) > right.ofs
        THEN MapWindow(mid3.ofs, right.ofs - mid3.ofs)
        ELSE mid3

\* the recursive call's region under the caller's closing assert
Reasserted(again, offset, passes) ==
    IF again.err # "ok"
    THEN Raised(again.m, again.err, again.sel, passes \o again.passes)
    ELSE Asserted(again.m, again.r, offset, passes \o again.passes)

\* TilingMemmapManager._obtain_region; nfail is the number of coming mmap
\* calls the operating system refuses
RECURSIVE Tiling_obtain_region(_, _, _, _, _, _, _)
Tiling_obtain_region(m, fi, path, offset, size, is_recursive, nfail) ==
    LET fsize == file_size[path]
        avail0 == Min(fsize, window_size)
        avail_size == IF 0 < size /\ size < avail0 THEN size ELSE avail0
    IN  IF offset >= fsize THEN Raised(m, "ValueError", NoRegion, <<>>)
        ELSE
        With(sorted_by_ofs(regions_for_finfo(m, fi)), LAMBDA rlist :
        With(bisect(rlist, 0, Len(rlist), offset), LAMBDA found :
        IF found >= 0 THEN Asserted(m, rlist[found + 1], offset, <<>>)
        ELSE
        With(tiling_window(rlist, fsize, offset, avail_size), LAMBDA mid :
        With(mapped_memory_size(m) + mid.size >= max_memory_size
             \/ num_open_regions(m) >= max_regions_count, LAMBDA over :
        With(IF over THEN purge_lru_regions(m, mid.size) ELSE NotPurged(m),
             LAMBDA pg :
        IF pg.err # "ok" THEN Raised(pg.m, pg.err, NoRegion, pg.passes)
        ELSE
        With(open_region(pg.m, fi, path, mid.ofs, mid.size, nfail > 0),
             LAMBDA opened :
        IF opened.err = "ok"
        THEN Asserted(opened.m, opened.r, offset, pg.passes)
        ELSE IF is_recursive \/ over
        THEN Raised(opened.m, opened.err, NoRegion, pg.passes)
        ELSE
        With(purge_lru_regions(opened.m, 0), LAMBDA pg0 :
        IF pg0.err # "ok"
        THEN Raised(pg0.m, pg0.err, NoRegion, pg.passes \o pg0.passes)
        ELSE Reasserted(Tiling_obtain_region(pg0.m, fi, path, offset,
                                             avail_size, TRUE, nfail - 1),
                        offset, pg.passes \o pg0.passes))))))))

\* a selection whose range check lets offset = file size through
RECURSIVE Greedy_obtain_region_off_by_one(_, _, _, _, _, _)
Greedy_obtain_region_off_by_one(m, fi, path, offset, is_recursive, nfail) ==
    LET fsize == file_size[path]
    IN  IF offset > fsize THEN Raised(m, "ValueError", NoRegion, <<>>)
        ELSE IF window_size > 0 /\ fsize > window_size
        THEN Raised(m, "ValueError", NoRegion, <<>>)
        ELSE
        With(regions_for_finfo(m, fi), LAMBDA rlist :
        IF rlist # <<>>
        THEN IF Len(rlist) = 1 THEN Asserted(m, rlist[1], offset, <<>>)
             ELSE Raised(m, "AssertionError", NoRegion, <<>>)
        ELSE
        With(mapped_memory_size(m) + fsize > max_memory_size
             \/ num_open_regions(m) >= max_regions_count, LAMBDA over :
        With(IF over THEN purge_lru_regions(m, fsize) ELSE NotPurged(m),
             LAMBDA pg :
        IF pg.err # "ok" THEN Raised(pg.m, pg.err, NoRegion, pg.passes)
        ELSE
        With(open_region(pg.m, fi, path, 0, fsize, nfail > 0), LAMBDA opened :
        IF opened.err = "ok"
        THEN Asserted(opened.m, opened.r, offset, pg.passes)
        ELSE IF is_recursive \/ over
        THEN Raised(opened.m, opened.err, NoRegion, pg.passes)
        ELSE
        With(purge_lru_regions(opened.m, 0), LAMBDA pg0 :
        IF pg0.err # "ok"
        THEN Raised(pg0.m, pg0.err, NoRegion, pg.passes \o pg0.passes)
        ELSE Reasserted(Greedy_obtain_region_off_by_one(pg0.m, fi, path, 0, TRUE,
                                             nfail - 1),
                        offset, pg.passes \o pg0.passes))))))

\* a selection that maps a file of any size, whatever window_size is
RECURSIVE Greedy_obtain_region_any_file_size(_, _, _, _, _, _)
Greedy_obtain_region_any_file_size(m, fi, path, offset, is_recursive, nfail) ==
    LET fsize == file_size[path]
    IN  IF offset >= fsize THEN Raised(m, "ValueError", NoRegion, <<>>)
        ELSE
        With(regions_for_finfo(m, fi), LAMBDA rlist :
        IF rlist # <<>>
        THEN IF Len(rlist) = 1 THEN Asserted(m, rlist[1], offset, <<>>)
             ELSE Raised(m, "AssertionError", NoRegion, <<>>)
        ELSE
        With(mapped_memory_size(m) + fsize > max_memory_size
             \/ num_open_regions(m) >= max_regions_count, LAMBDA over :
        With(IF over THEN purge_lru_regions(m, fsize) ELSE NotPurged(m),
             LAMBDA pg :
        IF pg.err # "ok" THEN Raised(pg.m, pg.err, NoRegion, pg.passes)
        ELSE
        With(open_region(pg.m, fi, path, 0, fsize, nfail > 0), LAMBDA opened :
        IF opened.err = "ok"
        THEN Asserted(opened.m, opened.r, offset, pg.passes)
        ELSE IF is_recursive \/ over
        THEN Raised(opened.m, opened.err, NoRegion, pg.passes)
        ELSE
        With(purge_lru_regions(opened.m, 0), LAMBDA pg0 :
        IF pg0.err # "ok"
        THEN Raised(pg0.m, pg0.err, NoRegion, pg.passes \o pg0.passes)
        ELSE Reasserted(Greedy_obtain_region_any_file_size(pg0.m, fi, path, 0, TRUE,
                                             nfail - 1),
                        offset, pg.passes \o pg0.passes))))))

\* GreedyMemmapManager._obtain_region
RECURSIVE Greedy_obtain_region(_, _, _, _, _, _)
Greedy_obtain_region(m, fi, path, offset, is_recursive, nfail) ==
    LET fsize == file_size[path]
    IN  IF offset >= fsize THEN Raised(m, "ValueError", NoRegion, <<>>)
        ELSE IF window_size > 0 /\ fsize > window_size
        THEN Raised(m, "ValueError", NoRegion, <<>>)
        ELSE
        With(regions_for_finfo(m, fi), LAMBDA rlist :
        IF rlist # <<>>
        THEN IF Len(rlist) = 1 THEN Asserted(m, rlist[1], offset, <<>>)
             ELSE Raised(m, "AssertionError", NoRegion, <<>>)
        ELSE
        With(mapped_memory_size(m) + fsize > max_memory_size
             \/ num_open_regions(m) >= max_regions_count, LAMBDA over :
        With(IF over THEN purge_lru_regions(m, fsize) ELSE NotPurged(m),
             LAMBDA pg :
        IF pg.err # "ok" THEN Raised(pg.m, pg.err, NoRegion, pg.passes)
        ELSE
        With(open_region(pg.m, fi, path, 0, fsize, nfail > 0), LAMBDA opened :
        IF opened.err = "ok"
        THEN Asserted(opened.m, opened.r, offset, pg.passes)
        ELSE IF is_recursive \/ over
        THEN Raised(opened.m, opened.err, NoRegion, pg.passes)
        ELSE
        With(purge_lru_regions(opened.m, 0), LAMBDA pg0 :
        IF pg0.err # "ok"
        THEN Raised(pg0.m, pg0.err, NoRegion, pg.passes \o pg0.passes)
        ELSE Reasserted(Greedy_obtain_region(pg0.m, fi, path, 0, TRUE,
                                             nfail - 1),
                        offset, pg.passes \o pg0.passes))))))

\* self._obtain_region of the manager that was constructed
obtain_region(m, fi, path, offset, size, nfail) ==
    IF kind = "Tiling"
    THEN Tiling_obtain_region(m, fi, path, offset, size, FALSE, nfail)
    ELSE Greedy_obtain_region(m, fi, path, offset, FALSE, nfail)

\* _get_or_create_finfo: the path's FileInfo, registered when it is new
get_or_create_finfo(m, path) ==
    IF m.ix_path_finfo[path] # NoFinfo THEN m
    ELSE [m EXCEPT !.ix_path_finfo[path] =
            LeastFree({m.ix_path_finfo[p] : p \in Paths} \cup
                      {r.finfo : r \in Range(m.ix_reg_mmap)})]

\* _bind_cursor: put the cursor, then hit its region
bind_cursor(m, c, cursor) ==
    [m EXCEPT !.ix_cur_reg = @ @@ (c :> cursor),
              !.ix_reg_mmap = hit(@, cursor.region),
              !.touched = SelectSeq(@, LAMBDA x : x # cursor.region)
                          \o <<cursor.region>>]

\* a size that is not cut at the end of the region
cursor_size_to_file_end(fsize, region, offset, size) ==
    IF 0 < size /\ size < fsize THEN size ELSE fsize

\* a size measured from the start of the file instead of the region's
cursor_size_from_file_start(fsize, region, offset, size) ==
    LET avail_size == Min(fsize, region.size - offset)
    IN  IF 0 < size /\ size < avail_size THEN size ELSE avail_size

\* the size a fixed cursor gets in make_cursor
cursor_size(fsize, region, offset, size) ==
    LET avail_size == Min(fsize, (region.ofs + region.size) - offset)
    IN  IF 0 < size /\ size < avail_size THEN size ELSE avail_size

\* make_cursor(path, offset, size, sliding=False); c is the identity of the
\* cursor it constructs
make_cursor(m, c, path, offset, size, nfail) ==
    IF offset < 0
    THEN [m |-> m, c |-> NoCursor, err |-> "IndexError", sel |-> NoRegion,
          passes |-> <<>>]
    ELSE
    With(get_or_create_finfo(m, path), LAMBDA m1 :
    With(obtain_region(m1, m1.ix_path_finfo[path], path, offset, size, nfail),
         LAMBDA got :
    IF got.err # "ok"
    THEN [m |-> got.m, c |-> NoCursor, err |-> got.err, sel |-> got.sel,
          passes |-> got.passes]
    ELSE [m |-> bind_cursor(got.m, c,
                    [path |-> path, ofs |-> offset,
                     size |-> cursor_size(file_size[path], got.r, offset, size),
                     region |-> got.r.id]),
          c |-> c, err |-> "ok", sel |-> got.sel, passes |-> got.passes]))

\* a release that also closes the region its last cursor leaves
release_cursor_and_region(m, c) ==
    IF c \in DOMAIN m.ix_cur_reg
    THEN LET left == [m EXCEPT !.ix_cur_reg = [x \in DOMAIN @ \ {c} |-> @[x]]]
         IN  IF m.ix_cur_reg[c].region \in used_regions(left)
             THEN [m |-> left, err |-> "ok"]
             ELSE release_region(left, m.ix_cur_reg[c].region)
    ELSE [m |-> m, err |-> "KeyError"]

\* a release that returns without taking the cursor from ix_cur_reg
release_cursor_keeps_binding(m, c) ==
    IF c \in DOMAIN m.ix_cur_reg THEN [m |-> m, err |-> "ok"]
    ELSE [m |-> m, err |-> "KeyError"]

\* _release_cursor: take the cursor from ix_cur_reg
release_cursor(m, c) ==
    IF c \in DOMAIN m.ix_cur_reg
    THEN [m |-> [m EXCEPT !.ix_cur_reg =
                    [x \in DOMAIN @ \ {c} |-> @[x]]], err |-> "ok"]
    ELSE [m |-> m, err |-> "KeyError"]

\* _cursor_bound, the scope a sliding cursor binds itself in: obtain the
\* region, bind, run the body, release; body_raises is the body of the
\* "with" raising, which the generator receives at its yield
cursor_bound(m, c, path, offset, size, body_raises) ==
    With(get_or_create_finfo(m, path), LAMBDA m1 :
    With(obtain_region(m1, m1.ix_path_finfo[path], path, offset, size, 0),
         LAMBDA got :
    IF got.err # "ok" THEN [m |-> got.m, err |-> got.err, bound |-> FALSE]
    ELSE
    With(bind_cursor(got.m, c,
            [path |-> path, ofs |-> offset,
             size |-> cursor_size(file_size[path], got.r, offset, size),
             region |-> got.r.id]), LAMBDA bound :
    IF body_raises THEN [m |-> bound, err |-> "Exception", bound |-> TRUE]
    ELSE [m |-> release_cursor(bound, c).m, err |-> release_cursor(bound, c).err,
          bound |-> TRUE])))

\* collect
collect(m) == purge_lru_regions(m, 0)

\* _release_cursor with its guard: nothing is done on a closed manager
release_cursor_unless_closed(m, is_closed, c) ==
    IF is_closed THEN [m |-> m, err |-> "ok"] ELSE release_cursor(m, c)

(* -------------------------------- close -------------------------------- *)
\* the indexes of a closed manager: close() sets all three to None
NoIndexes == [ix_path_finfo |-> [p \in Paths |-> NoFinfo], ix_reg_mmap |-> <<>>,
              ix_cur_reg |-> <<>>, touched |-> <<>>]

\* what reading a counter property hands back
Counter(v) == [err |-> "ok", val |-> v]
\* len() or sum() over an index that is None
OfNone == [err |-> "TypeError", val |-> 0]
\* the counter properties as a client reads them
observed_num_open_regions(m, is_closed) ==
    IF is_closed THEN OfNone ELSE Counter(num_open_regions(m))
observed_num_open_cursors(m, is_closed) ==
    IF is_closed THEN OfNone ELSE Counter(num_open_cursors(m))
observed_mapped_memory_size(m, is_closed) ==
    IF is_closed THEN OfNone ELSE Counter(mapped_memory_size(m))

\* the orders in which a collection can be iterated
Orders(S) == {f \in [1..Cardinality(S) -> S] : Range(f) = S}

\* the loop of close() that releases the cursors bound to closed regions,
\* over _ix_cur_reg.items() in the order cur_order: Python 2 iterates a copy;
\* Python 3 iterates the OrderedDict itself, and the step after a deletion
\* raises RuntimeError unless the deleted item was the last one
close_cursors(m, cur_order, closed_regions, py3) ==
    LET hits == {i \in DOMAIN cur_order :
                    m.ix_cur_reg[cur_order[i]].region \in closed_regions}
        first == CHOOSE i \in hits : \A j \in hits : i <= j
        gone == IF py3 THEN {cur_order[first]}
                ELSE {cur_order[i] : i \in hits}
        left == [m EXCEPT !.ix_cur_reg = [x \in DOMAIN @ \ gone |-> @[x]]]
    IN  IF hits = {} THEN [m |-> m, err |-> "ok"]
        ELSE IF py3 /\ first # Len(cur_order)
        THEN [m |-> left, err |-> "RuntimeError"]
        ELSE [m |-> left, err |-> "ok"]

\* the loop of close() that releases the closed regions, in the order
\* reg_order of the set; the KeyError of a failing take is no
\* MemmapManagerError and leaves the loop
RECURSIVE close_regions(_, _)
close_regions(m, reg_order) ==
    IF reg_order = <<>> THEN [m |-> m, err |-> "ok"]
    ELSE LET rel == release_region(m, Head(reg_order))
         IN  IF rel.err # "ok" THEN [m |-> rel.m, err |-> rel.err]
             ELSE close_regions(rel.m, Tail(reg_order))

\* close(): failing is the set of regions whose mmap refuses to close
close(m, is_closed, failing, cur_order, reg_order, py3) ==
    IF is_closed THEN [m |-> m, err |-> "ok", closed |-> TRUE]
    ELSE IF failing = {} THEN [m |-> NoIndexes, err |-> "ok", closed |-> TRUE]
    ELSE
    With(close_cursors(m, cur_order, Range(reg_order), py3), LAMBDA cs :
    IF cs.err # "ok" THEN [m |-> cs.m, err |-> cs.err, closed |-> FALSE]
    ELSE
    With(close_regions(cs.m, reg_order), LAMBDA rs :
    IF rs.err # "ok" THEN [m |-> rs.m, err |-> rs.err, closed |-> FALSE]
    ELSE [m |-> rs.m, err |-> "MemmapManagerError", closed |-> FALSE]))

(* ------------------------- cursors and buffer -------------------------- *)
\* FixedWindowCursor: closed, includes_ofs, buffer() and make_cursor()
cursor_closed(m, c) == c \notin DOMAIN m.ix_cur_reg
cursor_includes_ofs(cur, ofs) == cur.ofs <= ofs /\ ofs < cur.ofs + cur.size
cursor_buffer(cur) == file_bytes(cur.path, cur.ofs, cur.ofs + cur.size)
cursor_make_cursor(m, c, cur, offset, size) ==
    make_cursor(m, c, cur.path, offset, size, 0)
\* identity of a cursor object constructed while cursor c is still held
fresh_cursor(m, c) == LeastFree(DOMAIN m.ix_cur_reg \cup {c})

\* Python's seq[k] and seq[a:b] on a bytes object
py_in_range(seq, k) == -Len(seq) <= k /\ k < Len(seq)
py_index(seq, k) == IF k < 0 THEN seq[Len(seq) + k + 1] ELSE seq[k + 1]
py_clamp(seq, k) == IF k < 0 THEN Max(Len(seq) + k, 0) ELSE Min(k, Len(seq))
py_slice(seq, a, b) == SubSeq(seq, py_clamp(seq, a) + 1, py_clamp(seq, b))

\* SlidingWindowMapBuffer.__init__
buf_init(m, path, offset, size) ==
    LET avail_size == file_size[path] - offset
    IN  [m |-> get_or_create_finfo(m, path),
         buf |-> [path |-> path, ofs |-> offset,
                  size |-> IF 0 < size /\ size < avail_size THEN size
                           ELSE avail_size,
                  c |-> NoCursor]]

\* what a read of the buffer hands back: the indexes, the buffer's cursor
\* afterwards, the error raised and the bytes returned
Read(m, c, err, bytes) == [m |-> m, c |-> c, err |-> err, bytes |-> bytes]

\* the byte __getitem__ returns: c.buffer()[i - c.ofs]
item_of(m, c, i) ==
    LET cur == m.ix_cur_reg[c]
    IN  IF py_in_range(cursor_buffer(cur), i - cur.ofs)
        THEN Read(m, c, "ok", <<py_index(cursor_buffer(cur), i - cur.ofs)>>)
        ELSE Read(m, c, "IndexError", <<>>)

\* SlidingWindowMapBuffer.__getitem__ with an integer
buf_getitem(m, b, i0) ==
    LET c == b.c
        i == IF i0 < 0 THEN b.size + i0 ELSE i0
        cur == m.ix_cur_reg[c]
    IN  IF cursor_closed(m, c) THEN Read(m, c, "AssertionError", <<>>)
        ELSE IF cursor_includes_ofs(cur, i) THEN item_of(m, c, i)
        ELSE
        With(release_cursor(m, c), LAMBDA rel :
        With(fresh_cursor(rel.m, c), LAMBDA c2 :
        With(cursor_make_cursor(rel.m, c2, cur, i, 1), LAMBDA made :
        IF made.err # "ok" THEN Read(made.m, c, made.err, <<>>)
        ELSE item_of(made.m, c2, i))))

\* the "while l:" loop of __getslice__; a turn that reads no byte repeats
\* for ever
RECURSIVE slow_path(_, _, _, _, _, _)
slow_path(m, c, cur, ofs, l, out) ==
    IF l = 0 THEN Read(m, c, "ok", out)
    ELSE
    With(release_cursor(m, c), LAMBDA rel :
    IF rel.err # "ok" THEN Read(rel.m, c, rel.err, <<>>)
    ELSE
    With(fresh_cursor(rel.m, c), LAMBDA c2 :
    With(cursor_make_cursor(rel.m, c2, cur, ofs, l), LAMBDA made :
    IF made.err # "ok" THEN Read(made.m, c, made.err, <<>>)
    ELSE
    With(py_slice(cursor_buffer(made.m.ix_cur_reg[c2]), 0, l), LAMBDA d :
    IF Len(d) = 0 THEN Read(made.m, c2, "NoProgress", <<>>)
    ELSE slow_path(made.m, c2, made.m.ix_cur_reg[c2], ofs + Len(d),
                   l - Len(d), out \o d)))))

\* the number of turns of the "while l:" loop that bound a cursor, counted
\* until the loop ends, raises or reads no byte
RECURSIVE slow_path_turns(_, _, _, _, _)
slow_path_turns(m, c, cur, ofs, l) ==
    IF l = 0 THEN 0
    ELSE
    With(release_cursor(m, c), LAMBDA rel :
    IF rel.err # "ok" THEN 0
    ELSE
    With(fresh_cursor(rel.m, c), LAMBDA c2 :
    With(cursor_make_cursor(rel.m, c2, cur, ofs, l), LAMBDA made :
    IF made.err # "ok" THEN 0
    ELSE
    With(py_slice(cursor_buffer(made.m.ix_cur_reg[c2]), 0, l), LAMBDA d :
    IF Len(d) = 0 THEN 1
    ELSE 1 + slow_path_turns(made.m, c2, made.m.ix_cur_reg[c2], ofs + Len(d),
                             l - Len(d))))))

\* SlidingWindowMapBuffer.__getslice__ (j is never sys.maxsize here)
buf_getslice(m, b, i0, j0) ==
    LET c == b.c
        i == IF i0 < 0 THEN b.size + i0 ELSE i0
        j == IF j0 < 0 THEN b.size + j0 ELSE j0
        cur == m.ix_cur_reg[c]
    IN  IF cursor_closed(m, c) THEN Read(m, c, "AssertionError", <<>>)
        ELSE IF cur.ofs <= i /\ j < cur.ofs + cur.size
        THEN Read(m, c, "ok", py_slice(cursor_buffer(cur), i - cur.ofs, j - cur.ofs))
        ELSE slow_path(m, c, cur, i, j - i, <<>>)

\* the cursors __getslice__(i, j) binds: none on the fast path
getslice_turns(m, b, i, j) ==
    LET cur == m.ix_cur_reg[b.c]
    IN  IF cursor_closed(m, b.c) THEN 0
        ELSE IF cur.ofs <= i /\ j < cur.ofs + cur.size THEN 0
        ELSE slow_path_turns(m, b.c, cur, i, j - i)

\* buf[start:stop]: Python 3 hands the slice to __getitem__, which calls
\* __getslice__(start or 0, stop or self.size); Python 2 calls __getslice__
buf_subscript(m, b, start, stop, py3) ==
    IF py3
    THEN buf_getslice(m, b, IF start = 0 THEN 0 ELSE start,
                      IF stop = 0 THEN b.size ELSE stop)
    ELSE buf_getslice(m, b, start, stop)

\* SlidingWindowMapBuffer.release
buf_release(m, b) ==
    IF b.c = NoCursor THEN [m |-> m, c |-> NoCursor, err |-> "ok"]
    ELSE LET rel == release_cursor(m, b.c)
         IN  IF rel.err = "ok" THEN [m |-> rel.m, c |-> NoCursor, err |-> "ok"]
             ELSE [m |-> rel.m, c |-> b.c, err |-> rel.err]

(* ------------------------- the manager's clients ----------------------- *)
NoLast == [op |-> "init", offset |-> 0, stop |-> 0, err |-> "ok", c |-> NoCursor,
           sel |-> NoRegion, passes |-> <<>>, num |-> 0, bytes |-> <<>>,
           failed |-> {}, held |-> 0]

\* the state after MemmapManager.__init__: three empty indexes (Relation is
\* taken to accept the on_errors keyword that __init__ passes)
InitMman(managers) ==
    /\ \E mm \in managers :
            /\ kind = mm[1]
            /\ window_size = mm[2]
            /\ max_memory_size = mm[3]
            /\ max_regions_count = mm[4]
    /\ ix_path_finfo = [p \in Paths |-> NoFinfo]
    /\ ix_reg_mmap = <<>>
    /\ ix_cur_reg = <<>>
    /\ touched = <<>>
    /\ buf = NoBuf
    /\ closed = FALSE
    /\ relation = NoRelation
    /\ win = NoWin
    /\ last = NoLast

\* the manager alone reads nothing that differs between the interpreters
Init == InitMman(Managers) /\ PY3 = TRUE

\* Identities are arbitrary, so every operation ends by renaming them to a
\* canonical choice: a region is numbered by its place in ix_reg_mmap, a
\* FileInfo by its first use (ix_path_finfo, then ix_reg_mmap), a cursor by
\* its rank among the bound cursors; a reference to a dead object becomes
\* Stale.
Stale == 99
region_name(m, rid) ==
    IF rid \in region_ids(m)
    THEN CHOOSE i \in DOMAIN m.ix_reg_mmap : m.ix_reg_mmap[i].id = rid
    ELSE IF rid = 0 THEN 0 ELSE Stale
finfo_uses(m) ==
    SelectSeq([p \in Paths |-> m.ix_path_finfo[p]], LAMBDA f : f # NoFinfo)
    \o [i \in DOMAIN m.ix_reg_mmap |-> m.ix_reg_mmap[i].finfo]
finfo_name(m, f) ==
    IF f = NoFinfo THEN NoFinfo
    ELSE LET uses == finfo_uses(m)
             first(g) == CHOOSE i \in DOMAIN uses :
                            uses[i] = g /\ \A j \in 1..(i - 1) : uses[j] # g
         IN  Cardinality({g \in Range(uses) : first(g) <= first(f)})
cursor_key(cur) == ((cur.region * 128 + cur.path) * 128 + cur.ofs) * 128 + cur.size
cursor_name(m, c) ==
    IF c \in DOMAIN m.ix_cur_reg
    THEN LET cur(x) == [m.ix_cur_reg[x] EXCEPT !.region = region_name(m, @)]
         IN  1 + Cardinality({d \in DOMAIN m.ix_cur_reg :
                    \/ cursor_key(cur(d)) < cursor_key(cur(c))
                    \/ cursor_key(cur(d)) = cursor_key(cur(c)) /\ d < c})
    ELSE IF c = NoCursor THEN NoCursor ELSE Stale
canon(m) ==
    [ix_path_finfo |-> [p \in Paths |-> finfo_name(m, m.ix_path_finfo[p])],
     ix_reg_mmap |-> [i \in DOMAIN m.ix_reg_mmap |->
                        [m.ix_reg_mmap[i] EXCEPT !.id = i,
                                                 !.finfo = finfo_name(m, @)]],
     ix_cur_reg |-> LET old(n) == CHOOSE c \in DOMAIN m.ix_cur_reg :
                                      cursor_name(m, c) = n
                    IN  [n \in 1..Cardinality(DOMAIN m.ix_cur_reg) |->
                            [m.ix_cur_reg[old(n)] EXCEPT
                                !.region = region_name(m, @)]],
     touched |-> [i \in DOMAIN m.touched |-> region_name(m, m.touched[i])]]

SetMman(m) ==
    \E n \in {canon(m)} :
        /\ ix_path_finfo' = n.ix_path_finfo
        /\ ix_reg_mmap' = n.ix_reg_mmap
        /\ ix_cur_reg' = n.ix_cur_reg
        /\ touched' = n.touched
\* the buffer, holding its cursor under the canonical name
SetBuf(m, b) == buf' = [b EXCEPT !.c = cursor_name(m, @)]
\* the region an operation selected, under its canonical name
Sel(m, r) == [r EXCEPT !.id = region_name(m, @), !.finfo = finfo_name(m, @)]

\* identities the clients' cursors take
CursorIds == {1, 2}
\* identity of the next cursor object
new_cursor == LeastFree(DOMAIN ix_cur_reg)

\* a client calls mman.make_cursor(path, offset, size) on an open manager;
\* the operating system grants every mmap call
MakeCursor ==
    \E path \in Paths, size \in RequestSizes :
    \E offset \in -1..file_size[path] :
        \E res \in {make_cursor(Mman, new_cursor, path, offset, size, 0)} :
            /\ ~closed
            /\ new_cursor \in CursorIds
            /\ num_open_regions(res.m) <= MaxRegions
            /\ SetMman(res.m)
            /\ SetBuf(res.m, buf)
            /\ last' = [NoLast EXCEPT !.op = "make_cursor", !.offset = offset,
                                      !.err = res.err,
                                      !.c = cursor_name(res.m, res.c),
                                      !.sel = Sel(res.m, res.sel),
                                      !.passes = res.passes]
            /\ UNCHANGED <<config, PY3, closed, relation, win>>

\* a client releases a bound cursor: cursor.release()
ReleaseCursor ==
    \E c \in DOMAIN ix_cur_reg :
        \E res \in {release_cursor(Mman, c)} :
            /\ ~closed
            /\ c # buf.c
            /\ SetMman(res.m)
            /\ SetBuf(res.m, buf)
            /\ last' = [NoLast EXCEPT !.op = "release", !.err = res.err]
            /\ UNCHANGED <<config, PY3, closed, relation, win>>

\* a client calls mman.collect()
Collect ==
    \E res \in {collect(Mman)} :
        /\ ~closed
        /\ SetMman(res.m)
        /\ SetBuf(res.m, buf)
        /\ last' = [NoLast EXCEPT !.op = "collect", !.err = res.err,
                                  !.num = res.num_found,
                                  !.passes = res.passes]
        /\ UNCHANGED <<config, PY3, closed, relation, win>>

Next == MakeCursor \/ ReleaseCursor \/ Collect

Spec == Init /\ [][Next]_vars

(* -------------------------- the buffer's clients ----------------------- *)
\* the interpreter is Python 3 or Python 2
InitBuf == InitMman(BufManagers) /\ PY3 \in BOOLEAN

\* a client constructs SlidingWindowMapBuffer(mman, path, offset, size),
\* dropping the buffer it had
BufNew ==
    \E path \in Paths, size \in RequestSizes :
    \E offset \in 0..(file_size[path] - 1) :
        \E res \in {buf_init(Mman, path, offset, size)} :
            /\ cursor_closed(Mman, buf.c)
            /\ SetMman(res.m)
            /\ SetBuf(res.m, res.buf)
            /\ last' = [NoLast EXCEPT !.op = "buf", !.offset = offset]
            /\ UNCHANGED <<config, PY3, closed, relation, win>>

\* "with buf:" enters the buffer: __enter__
BufEnter ==
    /\ buf # NoBuf
    /\ buf.c = NoCursor
    /\ \E res \in {make_cursor(Mman, new_cursor, buf.path, buf.ofs, buf.size, 0)} :
            /\ num_open_regions(res.m) <= MaxRegions
            /\ SetMman(res.m)
            /\ SetBuf(res.m, [buf EXCEPT !.c = res.c])
            /\ last' = [NoLast EXCEPT !.op = "enter", !.offset = buf.ofs,
                                      !.err = res.err,
                                      !.c = cursor_name(res.m, res.c),
                                      !.sel = Sel(res.m, res.sel),
                                      !.passes = res.passes]
            /\ UNCHANGED <<config, PY3, closed, relation, win>>

\* a client reads buf[i]
BufGetItem ==
    /\ buf.c # NoCursor
    /\ \E i \in (-buf.size)..(buf.size - 1) :
        \E res \in {buf_getitem(Mman, buf, i)} :
            /\ num_open_regions(res.m) <= MaxRegions
            /\ SetMman(res.m)
            /\ SetBuf(res.m, [buf EXCEPT !.c = res.c])
            /\ last' = [NoLast EXCEPT !.op = "getitem", !.offset = i,
                                      !.err = res.err, !.bytes = res.bytes]
            /\ UNCHANGED <<config, PY3, closed, relation, win>>

\* a client reads buf[start:stop]
BufGetSlice ==
    /\ buf.c # NoCursor
    /\ \E start \in 0..buf.size :
       \E stop \in start..buf.size :
        \E res \in {buf_subscript(Mman, buf, start, stop, PY3)} :
            /\ num_open_regions(res.m) <= MaxRegions
            /\ SetMman(res.m)
            /\ SetBuf(res.m, [buf EXCEPT !.c = res.c])
            /\ last' = [NoLast EXCEPT !.op = "getslice", !.offset = start,
                                      !.stop = stop,
                                      !.err = res.err, !.bytes = res.bytes]
            /\ UNCHANGED <<config, PY3, closed, relation, win>>

\* the "with" block ends, or the client calls buf.release()
BufRelease ==
    /\ buf # NoBuf
    /\ \E res \in {buf_release(Mman, buf)} :
            /\ SetMman(res.m)
            /\ SetBuf(res.m, [buf EXCEPT !.c = res.c])
            /\ last' = [NoLast EXCEPT !.op = "buf_release", !.err = res.err]
            /\ UNCHANGED <<config, PY3, closed, relation, win>>

NextBuf == BufNew \/ BufEnter \/ BufGetItem \/ BufGetSlice \/ BufRelease \/ Collect

SpecBuf == InitBuf /\ [][NextBuf]_vars

\* the buffer's clients on Tiling managers with window_size > 0
SliceManagers == {<<"Tiling", 2, 6, 100>>, <<"Tiling", 3, 100, 100>>}
InitSlices == InitMman(SliceManagers) /\ PY3 = TRUE
SpecSlices == InitSlices /\ [][NextBuf]_vars

(* ------------------- clients holding one cursor at a time -------------- *)
\* Tiling managers with window_size > 0 whose caps are within reach:
\* max_memory_size is at least window_size + ALLOCATIONGRANULARITY - 1
SerialManagers == {<<"Tiling", 2, 3, 100>>, <<"Tiling", 2, 6, 100>>,
                   <<"Tiling", 2, 100, 1>>, <<"Tiling", 2, 5, 2>>,
                   <<"Tiling", 3, 4, 100>>, <<"Tiling", 3, 8, 2>>}
InitSerial == InitMman(SerialManagers) /\ PY3 = TRUE

\* a client that released its cursor makes the next one
MakeCursorSerial == ix_cur_reg = <<>> /\ MakeCursor

NextSerial == MakeCursorSerial \/ ReleaseCursor \/ Collect

SpecSerial == InitSerial /\ [][NextSerial]_vars

(* ----------------------- clients reading single bytes ----------------- *)
\* Tiling managers with 0 < window_size < MaxFileSize
ReadManagers == {<<"Tiling", 2, 100, 100>>, <<"Tiling", 2, 6, 100>>,
                 <<"Tiling", 2, 100, 1>>, <<"Tiling", 3, 100, 100>>,
                 <<"Tiling", 4, 100, 100>>}
InitReads == InitMman(ReadManagers) /\ PY3 = TRUE

\* a client reads one byte: mman.make_cursor(path, offset, 1)
ReadByte ==
    \E path \in Paths :
    \E offset \in 0..(file_size[path] - 1) :
        \E res \in {make_cursor(Mman, new_cursor, path, offset, 1, 0)} :
            /\ ~closed
            /\ new_cursor \in CursorIds
            /\ num_open_regions(res.m) <= MaxRegions
            /\ SetMman(res.m)
            /\ SetBuf(res.m, buf)
            /\ last' = [NoLast EXCEPT !.op = "make_cursor", !.offset = offset,
                                      !.err = res.err,
                                      !.c = cursor_name(res.m, res.c),
                                      !.sel = Sel(res.m, res.sel),
                                      !.passes = res.passes]
            /\ UNCHANGED <<config, PY3, closed, relation, win>>

NextReads == ReadByte \/ ReleaseCursor \/ Collect

SpecReads == InitReads /\ [][NextReads]_vars

(* ------------------------ clients closing the manager ------------------ *)
CloseManagers == {<<"Tiling", 2, 100, 100>>, <<"Tiling", 2, 6, 100>>,
                  <<"Greedy", 0, 100, 100>>}
InitClose == InitMman(CloseManagers) /\ PY3 \in BOOLEAN

\* a client calls mman.close(); the mmaps of the regions in failing have
\* exported views and refuse to close
Close ==
    \E failing \in SUBSET region_ids(Mman) :
    \E cur_order \in Orders(DOMAIN ix_cur_reg) :
    \E reg_order \in Orders(region_ids(Mman) \ failing) :
        \E res \in {close(Mman, closed, failing, cur_order, reg_order, PY3)} :
            /\ SetMman(res.m)
            /\ SetBuf(res.m, buf)
            /\ closed' = res.closed
            /\ last' = [NoLast EXCEPT
                            !.op = "close", !.err = res.err,
                            !.failed = {region_name(res.m, r) : r \in failing},
                            !.held = num_open_cursors(Mman)]
            /\ UNCHANGED <<config, PY3, relation, win>>

\* a client calls mman._release_cursor(cursor) with a cursor that is in no
\* index: a cursor that was bound when close() succeeded (its first release),
\* or a cursor that was released just before (released again)
ReleaseUnbound ==
    /\ \/ last.op = "close" /\ closed /\ last.held >= 1
       \/ last.op = "release" /\ last.err = "ok"
       \/ last.op = "release_again"
    /\ \E res \in {release_cursor_unless_closed(Mman, closed, Stale)} :
            /\ SetMman(res.m)
            /\ SetBuf(res.m, buf)
            /\ last' = [NoLast EXCEPT
                            !.op = IF last.op = "close" THEN "release"
                                   ELSE "release_again",
                            !.err = res.err]
            /\ UNCHANGED <<config, PY3, closed, relation, win>>

NextClose == MakeCursor \/ ReleaseCursor \/ Collect \/ Close \/ ReleaseUnbound

SpecClose == InitClose /\ [][NextClose]_vars

(* ------------------ clients whose mmap calls can be refused ------------ *)
FailManagers == {<<"Tiling", 2, 100, 100>>, <<"Tiling", 2, 6, 100>>,
                 <<"Greedy", 0, 100, 100>>, <<"Greedy", 3, 100, 100>>}
InitFail == InitMman(FailManagers) /\ PY3 = TRUE

\* most mmap calls in a row that the operating system refuses
MaxRefused == 2

\* a client calls mman.make_cursor(path, offset, size) while the operating
\* system refuses the next nfail mmap calls
MakeCursorRefused ==
    \E path \in Paths, size \in RequestSizes, nfail \in 1..MaxRefused :
    \E offset \in 0..(file_size[path] - 1) :
        \E res \in {make_cursor(Mman, new_cursor, path, offset, size, nfail)} :
            /\ ~closed
            /\ new_cursor \in CursorIds
            /\ num_open_regions(res.m) <= MaxRegions
            /\ SetMman(res.m)
            /\ SetBuf(res.m, buf)
            /\ last' = [NoLast EXCEPT !.op = "make_cursor", !.offset = offset,
                                      !.err = res.err,
                                      !.c = cursor_name(res.m, res.c),
                                      !.sel = Sel(res.m, res.sel),
                                      !.passes = res.passes,
                                      !.num = nfail]
            /\ UNCHANGED <<config, PY3, closed, relation, win>>

NextFail == MakeCursor \/ MakeCursorRefused \/ ReleaseCursor \/ Collect

SpecFail == InitFail /\ [][NextFail]_vars

(* ----------------- regions whose mmap may refuse to close ------------ *)
ReleaseManagers == {<<"Tiling", 2, 100, 100>>, <<"Tiling", 2, 6, 100>>,
                    <<"Greedy", 0, 100, 100>>}
InitRelease == InitMman(ReleaseManagers) /\ PY3 = TRUE

\* _purge_lru_regions or close() calls _release_region(region) on a region
\* that no cursor uses; the region's mmap closes, or refuses to (exported
\* views); last.sel is the region as it was registered before the call
ReleaseRegion ==
    \E rid \in region_ids(Mman) \ used_regions(Mman), close_fails \in BOOLEAN :
        \E res \in {release_region_closing(Mman, rid, close_fails)} :
            /\ ~closed
            /\ SetMman(res.m)
            /\ SetBuf(res.m, buf)
            /\ last' = [NoLast EXCEPT !.op = "release_region",
                                      !.err = res.err,
                                      !.sel = Sel(Mman, region_by_id(Mman, rid))]
            /\ UNCHANGED <<config, PY3, closed, relation, win>>

NextRelease == MakeCursor \/ ReleaseCursor \/ ReleaseRegion

SpecRelease == InitRelease /\ [][NextRelease]_vars

(* --------------------------- users of a Relation ----------------------- *)
\* the state after Relation.__init__, for every choice of one2one, null_keys,
\* null_values and of setting the two error hooks; no manager is in play
InitRelation(flags) ==
    /\ kind = "Tiling"
    /\ window_size = 0
    /\ max_memory_size = 0
    /\ max_regions_count = 0
    /\ ix_path_finfo = [p \in Paths |-> NoFinfo]
    /\ ix_reg_mmap = <<>>
    /\ ix_cur_reg = <<>>
    /\ touched = <<>>
    /\ buf = NoBuf
    /\ PY3 = TRUE
    /\ closed = FALSE
    /\ win = NoWin
    /\ \E f \in flags :
            relation = [NoRelation EXCEPT !.one2one = f[1], !.null_keys = f[2],
                                          !.null_values = f[3], !.hooked = f[4]]
    /\ last = NoLast

RelUnchanged ==
    UNCHANGED <<config, ix_path_finfo, ix_reg_mmap, ix_cur_reg, touched, buf,
                PY3, closed, win>>

\* rel.put(k, v)
RelPut ==
    \E k \in RelKeys, v \in RelValues :
    \E res \in {Relation_put(relation, k, v)} :
        /\ relation' = res.r
        /\ last' = [NoLast EXCEPT !.op = "put", !.err = res.err]
        /\ RelUnchanged

\* rel.take(k)
RelTake ==
    \E k \in RelKeys :
    \E res \in {Relation_take(relation, k)} :
        /\ relation' = res.r
        /\ last' = [NoLast EXCEPT !.op = "take", !.err = res.err]
        /\ RelUnchanged

\* rel.hit(k)
RelHit ==
    \E k \in RelKeys :
    \E res \in {Relation_hit(relation, k)} :
        /\ relation' = res.r
        /\ last' = [NoLast EXCEPT !.op = "hit", !.err = res.err]
        /\ RelUnchanged

RelFlags == BOOLEAN \X BOOLEAN \X BOOLEAN \X BOOLEAN
InitRel == InitRelation(RelFlags)
NextRel == RelPut \/ RelTake \/ RelHit
SpecRel == InitRel /\ [][NextRel]_vars

\* "with rel:" is entered
RelEnter ==
    /\ ~relation.rollback_copy.taken
    /\ \E r \in {Relation_enter(relation)} :
            relation' = [r EXCEPT !.at_entry = r.rollback_copy]
    /\ last' = [NoLast EXCEPT !.op = "enter"]
    /\ RelUnchanged

\* the scope is left, with an error in flight (exc_type) or without; last.num
\* is history: the number of entries the relation held just before
RelExit ==
    /\ relation.rollback_copy.taken
    /\ \E exc_type \in BOOLEAN :
            /\ relation' = Relation_exit(relation, exc_type)
            /\ last' = [NoLast EXCEPT !.op = "exit",
                                      !.err = IF exc_type THEN "Exception" ELSE "ok",
                                      !.num = Len(relation.rel)]
    /\ RelUnchanged

\* scopes over relations that reject null keys
ScopeFlags == BOOLEAN \X {FALSE} \X BOOLEAN \X {FALSE}
InitScope == InitRelation(ScopeFlags)
NextScope == RelPut \/ RelTake \/ RelEnter \/ RelExit
SpecScope == InitScope /\ [][NextScope]_vars

\* rel[k] = v
RelSetItem ==
    \E k \in RelKeys \ {None}, v \in RelValues \ {None} :
        /\ relation' = Relation_setitem(relation, k, v)
        /\ last' = [NoLast EXCEPT !.op = "setitem"]
        /\ RelUnchanged

\* rel.clear(); last.num is history: the number of entries cleared
RelClear ==
    /\ relation' = Relation_clear(relation)
    /\ last' = [NoLast EXCEPT !.op = "clear", !.num = Len(relation.rel)]
    /\ RelUnchanged

\* one-to-one relations used through the whole mapping interface
MappingFlags == {TRUE} \X {FALSE} \X {FALSE} \X {FALSE}
InitMapping == InitRelation(MappingFlags)
NextMapping ==
    RelPut \/ RelTake \/ RelSetItem \/ RelClear \/ RelEnter \/ RelExit
SpecMapping == InitMapping /\ [][NextMapping]_vars

(* ---------------------- windows extended to the left ------------------ *)
\* largest size of a window under test, and largest max_size passed
MaxWindow == 3
\* the windows under test
Windows == {MapWindow(ofs, size) : ofs \in 0..MaxFileSize, size \in 0..MaxWindow}

\* a window w, a window on its left that ends at w.ofs or before, and a
\* max_size; no manager is in play
InitWindow ==
    /\ kind = "Tiling"
    /\ window_size = 0
    /\ max_memory_size = 0
    /\ max_regions_count = 0
    /\ ix_path_finfo = [p \in Paths |-> NoFinfo]
    /\ ix_reg_mmap = <<>>
    /\ ix_cur_reg = <<>>
    /\ touched = <<>>
    /\ buf = NoBuf
    /\ PY3 = TRUE
    /\ closed = FALSE
    /\ relation = NoRelation
    /\ \E w \in Windows, l \in Windows, max_size \in 0..(MaxWindow + 1) :
            /\ ofs_end(l) <= w.ofs
            /\ win = [NoWin EXCEPT !.w = w, !.window = l, !.max_size = max_size,
                                   !.start = w, !.prev = w]
    /\ last = NoLast

\* w.extend_left_to(window, max_size), a first and a second time
ExtendLeft ==
    /\ win.calls < 2
    /\ win' = [win EXCEPT !.w = extend_left_to(win.w, win.window, win.max_size),
                          !.prev = win.w, !.calls = @ + 1]
    /\ last' = [NoLast EXCEPT !.op = "extend_left_to"]
    /\ UNCHANGED <<config, ix_path_finfo, ix_reg_mmap, ix_cur_reg, touched, buf,
                   PY3, closed, relation>>

NextWindow == ExtendLeft
SpecWindow == InitWindow /\ [][NextWindow]_vars

(* ------------------- sliding cursors' scoped bindings ------------------ *)
\* sliding cursors exist on Tiling managers only
ScopedManagers == {<<"Tiling", 2, 100, 100>>, <<"Tiling", 0, 100, 100>>,
                   <<"Tiling", 2, 6, 100>>}
InitScoped == InitMman(ScopedManagers) /\ PY3 = TRUE

\* a sliding cursor made for path runs "with mman._cursor_bound(cursor,
\* offset, size):" and the body completes or raises; last.c is the cursor
\* afterwards, last.held tells whether the body was reached
CursorBound ==
    \E path \in Paths, size \in RequestSizes, body_raises \in BOOLEAN :
    \E offset \in 0..(file_size[path] - 1) :
        \E res \in {cursor_bound(Mman, new_cursor, path, offset, size,
                                 body_raises)} :
            /\ ~closed
            /\ new_cursor \in CursorIds
            /\ num_open_regions(res.m) <= MaxRegions
            /\ SetMman(res.m)
            /\ SetBuf(res.m, buf)
            /\ last' = [NoLast EXCEPT !.op = "cursor_bound", !.offset = offset,
                                      !.err = res.err,
                                      !.c = cursor_name(res.m, new_cursor),
                                      !.held = IF res.bound THEN 1 ELSE 0]
            /\ UNCHANGED <<config, PY3, closed, relation, win>>

NextScoped == CursorBound \/ ReleaseCursor \/ Collect
SpecScoped == InitScoped /\ [][NextScoped]_vars

(* ------------------------------- claims -------------------------------- *)
\* the region a bound cursor holds
region_of(cur) == region_by_id(Mman, cur.region)
\* two regions share no byte
disjoint(r1, r2) == r1.ofs + r1.size <= r2.ofs \/ r2.ofs + r2.size <= r1.ofs
\* an eviction pass closed the regions it closed oldest touch first
lru_pass(pass) ==
    /\ Len(pass.victims) <= Len(pass.unref)
    /\ \A k \in DOMAIN pass.victims : pass.victims[k] = pass.unref[k]
\* the sequence without its k-th element
without(seq, k) == SubSeq(seq, 1, k - 1) \o SubSeq(seq, k + 1, Len(seq))

\* C1: every cursor in ix_cur_reg is bound to a region that is still in
\* ix_reg_mmap: no eviction closes a region that has a bound cursor.
C1_CursorsBoundToOpenRegions ==
    \A c \in DOMAIN ix_cur_reg : ix_cur_reg[c].region \in region_ids(Mman)
\* collect() closed a region while another region had a bound cursor
C1_Witness ==
    /\ last.op = "collect"
    /\ last.num >= 1
    /\ DOMAIN ix_cur_reg # {}

\* C2: in a Tiling manager the regions open for one file are pairwise
\* disjoint as half-open intervals [ofs, ofs_end).
C2_TilingRegionsDisjoint ==
    kind = "Tiling" =>
        \A i, j \in DOMAIN ix_reg_mmap :
            (i # j /\ ix_reg_mmap[i].path = ix_reg_mmap[j].path)
                => disjoint(ix_reg_mmap[i], ix_reg_mmap[j])

\* C3: the region that region selection arrives at for a request with
\* 0 <= offset < file size includes the offset: ofs <= offset < ofs_end.
C3_SelectedRegionIncludesOffset ==
    (last.op = "make_cursor" /\ last.sel # NoRegion)
        => /\ last.sel.ofs <= last.offset
           /\ last.offset < ofs_end(last.sel)

\* C4: a cursor make_cursor returned starts at the requested offset, and
\* while it is bound it holds at least one byte, lies inside its region and
\* ends no later than its file.
C4_CursorWithinRegion ==
    /\ \A c \in DOMAIN ix_cur_reg :
        /\ ix_cur_reg[c].region \in region_ids(Mman)
        /\ ix_cur_reg[c].size >= 1
        /\ region_of(ix_cur_reg[c]).path = ix_cur_reg[c].path
        /\ region_of(ix_cur_reg[c]).ofs <= ix_cur_reg[c].ofs
        /\ ix_cur_reg[c].ofs + ix_cur_reg[c].size
                <= ofs_end(region_of(ix_cur_reg[c]))
        /\ ix_cur_reg[c].ofs + ix_cur_reg[c].size <= file_size[ix_cur_reg[c].path]
    /\ (last.op = "make_cursor" /\ last.err = "ok")
            => /\ last.c \in DOMAIN ix_cur_reg
               /\ ix_cur_reg[last.c].ofs = last.offset
\* make_cursor bound a cursor that starts after its region's start and that
\* the region's end cut short, while an older cursor is still bound
C4_Witness ==
    /\ last.op = "make_cursor"
    /\ last.err = "ok"
    /\ Cardinality(DOMAIN ix_cur_reg) = 2
    /\ ix_cur_reg[last.c].ofs > region_of(ix_cur_reg[last.c]).ofs
    /\ ix_cur_reg[last.c].ofs + ix_cur_reg[last.c].size
            = ofs_end(region_of(ix_cur_reg[last.c]))
    /\ ix_cur_reg[last.c].ofs + ix_cur_reg[last.c].size
            < file_size[ix_cur_reg[last.c].path]

\* C5: on a Tiling manager with window_size > 0 an open buffer over the
\* whole file returns, for 0 <= a <= b <= N, the file's bytes a..b.
C5_SliceRoundTrip ==
    (/\ last.op = "getslice"
     /\ kind = "Tiling"
     /\ window_size > 0
     /\ buf.ofs = 0
     /\ buf.size = file_size[buf.path])
        => /\ last.err = "ok"
           /\ last.bytes = file_bytes(buf.path, last.offset, last.stop)

\* C6: an indexed read buf[i] of an open buffer created at file offset o
\* returns the file's byte at o + i (o + size + i for negative i).
C6_IndexedReadIsRelative ==
    last.op = "getitem"
        => /\ last.err = "ok"
           /\ last.bytes =
                <<file_byte(buf.path,
                            buf.ofs + (IF last.offset < 0
                                       THEN buf.size + last.offset
                                       ELSE last.offset))>>

\* C7: every eviction pass closes unreferenced regions in least-recently-used
\* order: the regions it closed are the first ones of the unreferenced
\* regions, ordered by their latest touch (creation or cursor bind).
C7_EvictionInLruOrder ==
    \A i \in DOMAIN last.passes : lru_pass(last.passes[i])
\* a pass found two unreferenced regions and closed only the older one
C7_Witness ==
    \E i \in DOMAIN last.passes :
        /\ Len(last.passes[i].unref) >= 2
        /\ Len(last.passes[i].victims) = 1

\* C8: releasing a bound cursor removes that cursor's entry from ix_cur_reg
\* and nothing else: ix_reg_mmap (contents and order), ix_path_finfo,
\* num_open_regions and mapped_memory_size stay as they were.
C8_ReleaseChangesOnlyCursorIndex ==
    [][(last'.op = "release" /\ last'.err = "ok")
        => /\ ix_reg_mmap' = ix_reg_mmap
           /\ touched' = touched
           /\ ix_path_finfo' = ix_path_finfo
           /\ Len(ix_reg_mmap') = Len(ix_reg_mmap)
           /\ SumSizes(ix_reg_mmap') = SumSizes(ix_reg_mmap)
           /\ \E c \in DOMAIN ix_cur_reg : ix_cur_reg' = without(ix_cur_reg, c)]_vars
\* the last cursor of a region was released and the region is still open
C8_Witness ==
    /\ last.op = "release"
    /\ last.err = "ok"
    /\ ix_cur_reg = <<>>
    /\ ix_reg_mmap # <<>>

\* C9: collect() closes exactly the regions without a bound cursor and
\* returns their number; afterwards num_open_regions = num_used_regions.
C9_CollectClosesUnreferenced ==
    last.op = "collect"
        => /\ last.err = "ok"
           /\ last.num = Len(last.passes[1].unref)
           /\ num_open_regions(Mman) = num_used_regions(Mman)
           /\ C1_CursorsBoundToOpenRegions

\* C10: a second collect() right after a collect() returns 0 and changes no
\* index.
C10_CollectIdempotent ==
    last.op = "collect"
        => /\ collect(Mman).err = "ok"
           /\ collect(Mman).num_found = 0
           /\ collect(Mman).m = Mman

\* C11: after any sequence of make_cursor, release and collect the number
\* of regions with a bound cursor is at most the number of open regions.
C11_UsedAtMostOpen == num_used_regions(Mman) <= num_open_regions(Mman)
\* an eviction closed a region and left fewer regions in use than open
C11_Witness ==
    /\ last.passes # <<>>
    /\ \E i \in DOMAIN last.passes : last.passes[i].victims # <<>>
    /\ num_used_regions(Mman) >= 1
    /\ num_used_regions(Mman) < num_open_regions(Mman)

\* C12: in a Tiling manager with window_size > 0, max_regions_count >= 1 and
\* max_memory_size at least the size of the largest region, a client that
\* releases every cursor before it makes the next one finds, before every
\* request, mapped_memory_size <= max_memory_size and
\* num_open_regions <= max_regions_count.
C12_CapsKeptBetweenRequests ==
    (/\ kind = "Tiling"
     /\ window_size > 0
     /\ max_regions_count >= 1
     /\ max_memory_size >= window_size + ALLOCATIONGRANULARITY - 1
     /\ ix_cur_reg = <<>>)
        => /\ mapped_memory_size(Mman) <= max_memory_size
           /\ num_open_regions(Mman) <= max_regions_count
\* the client released its cursor, and the regions left open fill the memory
\* cap or the region cap exactly
C12_Witness ==
    /\ last.op = "release"
    /\ ix_cur_reg = <<>>
    /\ ix_reg_mmap # <<>>
    /\ \/ mapped_memory_size(Mman) = max_memory_size
       \/ num_open_regions(Mman) = max_regions_count

\* C13: in a Tiling manager with window_size = W > 0, after any sequence of
\* single-byte reads every open region of a file larger than W has
\* size <= W + (ALLOCATIONGRANULARITY - 1).
C13_RegionSizeBounded ==
    (kind = "Tiling" /\ window_size > 0) =>
        \A i \in DOMAIN ix_reg_mmap :
            file_size[ix_reg_mmap[i].path] > window_size
                => ix_reg_mmap[i].size <= window_size + (ALLOCATIONGRANULARITY - 1)
\* a single-byte read opened a second region of its file, of size
\* W + (G - 1)
C13_Witness ==
    /\ last.op = "make_cursor"
    /\ last.err = "ok"
    /\ Len(ix_reg_mmap) = 2
    /\ last.sel = ix_reg_mmap[2]
    /\ last.sel.size = window_size + (ALLOCATIONGRANULARITY - 1)
    /\ file_size[last.sel.path] > window_size
    /\ ix_reg_mmap[1].path = last.sel.path

\* C14: after a close() that succeeds the manager reports closed, and its
\* counters read num_open_regions = 0, num_open_cursors = 0 and
\* mapped_memory_size = 0.
C14_CountersZeroAfterClose ==
    (last.op = "close" /\ last.err = "ok")
        => /\ closed
           /\ observed_num_open_regions(Mman, closed) = Counter(0)
           /\ observed_num_open_cursors(Mman, closed) = Counter(0)
           /\ observed_mapped_memory_size(Mman, closed) = Counter(0)

\* C15: when a mapping failed to close, close() raised an error, the
\* manager is not closed, ix_reg_mmap holds exactly the regions whose mapping
\* failed to close, and every bound cursor's region is still in ix_reg_mmap.
C15_FailedCloseKeepsFailedRegions ==
    (last.op = "close" /\ last.failed # {})
        => /\ last.err # "ok"
           /\ ~closed
           /\ region_ids(Mman) = last.failed
           /\ \A c \in DOMAIN ix_cur_reg :
                    ix_cur_reg[c].region \in region_ids(Mman)

\* C16: close() called while a cursor is bound raises an error and the
\* manager does not become closed.
C16_CloseWithBoundCursorFails ==
    (last.op = "close" /\ last.held >= 1)
        => /\ last.err # "ok"
           /\ ~closed

\* C17: in every reachable state, releasing a cursor that was already
\* released is reported as an error, and it leaves ix_cur_reg, ix_reg_mmap
\* and ix_path_finfo unchanged.
C17_DoubleReleaseReported ==
    [][last'.op = "release_again"
        => /\ last'.err # "ok"
           /\ ix_cur_reg' = ix_cur_reg
           /\ ix_reg_mmap' = ix_reg_mmap
           /\ ix_path_finfo' = ix_path_finfo]_vars

\* C18: on an open manager of either class, make_cursor with offset < 0 or
\* offset >= file size fails with an out-of-range error (IndexError or
\* ValueError), binds no cursor and opens no region.
C18_OutOfRangeRejected ==
    ~closed =>
        \A path \in Paths, size \in RequestSizes :
        \A offset \in {-1, file_size[path], file_size[path] + 1} :
            LET res == make_cursor(Mman, new_cursor, path, offset, size, 0)
            IN  /\ res.err \in {"IndexError", "ValueError"}
                /\ res.c = NoCursor
                /\ res.m.ix_cur_reg = ix_cur_reg
                /\ res.m.ix_reg_mmap = ix_reg_mmap
\* a request at offset = file size was refused while the file had an open
\* region and a bound cursor
C18_Witness ==
    /\ last.op = "make_cursor"
    /\ last.err = "ValueError"
    /\ last.offset = MaxFileSize
    /\ \E i \in DOMAIN ix_reg_mmap : ix_reg_mmap[i].path = 1
    /\ ix_cur_reg # <<>>

\* the manager's counters
Counters == <<mapped_memory_size(Mman), num_open_regions(Mman),
              num_used_regions(Mman), num_open_files(Mman),
              num_open_cursors(Mman)>>

\* C19: a make_cursor call that fails leaves mapped_memory_size,
\* num_open_regions, num_used_regions, num_open_files and num_open_cursors
\* as they were before the call.
C19_FailedMakeCursorKeepsCounters ==
    [][(last'.op = "make_cursor" /\ last'.err # "ok")
        => Counters' = Counters]_vars

\* C20: on an open Greedy manager with window_size > 0, make_cursor on a file
\* whose size exceeds window_size fails with the error the code raises for an
\* unsupported request (ValueError), binds no cursor and creates no region,
\* for every offset from 0 up to the file size - 1 and whatever regions are
\* open.
C20_GreedyRefusesLargeFile ==
    (~closed /\ kind = "Greedy" /\ window_size > 0) =>
        \A path \in Paths : file_size[path] > window_size =>
        \A offset \in 0 .. (file_size[path] - 1), size \in RequestSizes :
            LET res == make_cursor(Mman, new_cursor, path, offset, size, 0)
            IN  /\ res.err = "ValueError"
                /\ res.c = NoCursor
                /\ res.m.ix_reg_mmap = ix_reg_mmap
                /\ res.m.ix_cur_reg = ix_cur_reg
\* a Greedy manager with window_size > 0 refused a request at offset 0 (only
\* the file larger than window_size is refused there) while the smaller file
\* had an open region with a bound cursor
C20_Witness ==
    /\ kind = "Greedy"
    /\ window_size > 0
    /\ last.op = "make_cursor"
    /\ last.err = "ValueError"
    /\ last.offset = 0
    /\ \E i \in DOMAIN ix_reg_mmap : file_size[ix_reg_mmap[i].path] <= window_size
    /\ ix_cur_reg # <<>>

\* C21: in a Greedy manager, in every reachable state, no two open regions
\* map the same file, and every open region starts at offset 0 and is as
\* long as its file.
C21_GreedyOneWholeRegionPerFile ==
    kind = "Greedy" =>
        \A i, j \in DOMAIN ix_reg_mmap :
            /\ ix_reg_mmap[i].path = ix_reg_mmap[j].path => i = j
            /\ ix_reg_mmap[i].ofs = 0
            /\ ix_reg_mmap[i].size = file_size[ix_reg_mmap[i].path]
\* a Greedy manager answered a request at an offset > 0 from the region it
\* already had for the file, which now carries two cursors, while the other
\* file has a region too
C21_Witness ==
    /\ kind = "Greedy"
    /\ last.op = "make_cursor"
    /\ last.err = "ok"
    /\ last.offset > 0
    /\ Len(ix_reg_mmap) = 2
    /\ \E c1, c2 \in DOMAIN ix_cur_reg :
            /\ c1 # c2
            /\ ix_cur_reg[c1].region = ix_cur_reg[c2].region

\* C22: a make_cursor call during which the operating system refuses exactly
\* one mmap call (so a retry would succeed) never surfaces the mapping error
\* to the caller, whether or not the budget check evicted before the first
\* attempt.
C22_OneRefusalIsRecovered ==
    (last.op = "make_cursor" /\ last.num = 1) => last.err # "OSError"

\* C23: in every reachable state of an open manager, _purge_lru_regions(need)
\* raises no error, for every need from 0 to the largest file size.
C23_EvictNeverFails ==
    ~closed =>
        \A need \in 0..MaxFileSize : purge_lru_regions(Mman, need).err = "ok"

\* whether a key, a value is mapped in the forward map of the relation
key_present(k) == \E i \in DOMAIN relation.rel : relation.rel[i].k = k
value_present(v) == \E i \in DOMAIN relation.rel : relation.rel[i].v = v

\* C24: in every reachable state of a Relation, put(k, v) raises KeyError and
\* leaves the relation (forward map, inverse map, order) as it is when k is
\* already a key, when the relation is one-to-one and v is already a value,
\* or when k or v is None and the matching flag is not set; take(k) raises
\* KeyError and leaves the relation as it is when k is not a key.
C24_IntegrityChecks ==
    \A k \in RelKeys, v \in RelValues :
        /\ (\/ key_present(k)
            \/ relation.one2one /\ value_present(v)
            \/ k = None /\ ~relation.null_keys
            \/ v = None /\ ~relation.null_values)
                => /\ Relation_put(relation, k, v).err = "KeyError"
                   /\ Relation_put(relation, k, v).r = relation
        /\ ~key_present(k)
                => /\ Relation_take(relation, k).err = "KeyError"
                   /\ Relation_take(relation, k).r = relation
\* a put was refused by a one-to-one relation that holds two entries
C24_Witness ==
    /\ last.op = "put"
    /\ last.err = "KeyError"
    /\ relation.one2one
    /\ Len(relation.rel) = 2
    /\ Len(relation.inv) = 2

\* C25: when a scope over a Relation exits with an error, its forward map
\* and (when one-to-one) its inverse map, with their order, are those of the
\* moment the scope was entered; when it exits normally they are those the
\* puts and takes inside the scope left.
C25_ScopeRollsBack ==
    [][last'.op = "exit" =>
        IF last'.err # "ok"
        THEN /\ relation'.rel = relation.at_entry.rel
             /\ relation.one2one => relation'.inv = relation.at_entry.inv
        ELSE /\ relation'.rel = relation.rel
             /\ relation'.inv = relation.inv]_vars
\* a scope over a one-to-one relation that was entered with two entries and
\* held one when it exited with an error: the relation has two entries again
C25_Witness ==
    /\ last.op = "exit"
    /\ last.err # "ok"
    /\ last.num = 1
    /\ relation.one2one
    /\ relation.rel = relation.at_entry.rel
    /\ Len(relation.rel) = 2
    /\ Len(relation.inv) = 2

\* C26: in every reachable state of a Relation whose error hooks are set to
\* a sink raising ValueError, a put of a key that is present, a take of a
\* key that is absent and a hit of a key that is absent raise ValueError, and
\* leave the relation as it is.
C26_SinkErrorRaised ==
    relation.hooked =>
        \A k \in RelKeys, v \in RelValues :
            /\ key_present(k)
                    => /\ Relation_put(relation, k, v).err = "ValueError"
                       /\ Relation_put(relation, k, v).r = relation
            /\ ~key_present(k)
                    => /\ Relation_take(relation, k).err = "ValueError"
                       /\ Relation_take(relation, k).r = relation
                       /\ Relation_hit(relation, k).err = "ValueError"
                       /\ Relation_hit(relation, k).r = relation

\* the buffer holds a bound cursor: it was entered and is not released
buf_open == buf # NoBuf /\ buf.c \in DOMAIN ix_cur_reg

\* C27: in every reachable state with an open buffer of length size, reading
\* buf[i] with i = -size - 1, i = size or i = size + 1 raises an out-of-range
\* error (IndexError or ValueError), binds no cursor that was not bound
\* before and creates no region.
C27_IndexOutOfRangeRejected ==
    buf_open =>
        \A i \in {-buf.size - 1, buf.size, buf.size + 1} :
            LET res == buf_getitem(Mman, buf, i)
            IN  /\ res.err \in {"IndexError", "ValueError"}
                /\ \A c \in DOMAIN res.m.ix_cur_reg :
                        /\ c \in DOMAIN ix_cur_reg
                        /\ res.m.ix_cur_reg[c] = ix_cur_reg[c]
                /\ res.m.ix_reg_mmap = ix_reg_mmap

\* C28: in every reachable state with an open buffer of length size, the
\* slice buf[i:size + 1] succeeds for every 0 <= i <= size and returns the
\* bytes of the buffer's positions i .. size - 1, which are the file's bytes
\* ofs + i .. ofs + size - 1.
C28_SliceStopClamped ==
    buf_open =>
        \A i \in 0..buf.size :
            LET res == buf_subscript(Mman, buf, i, buf.size + 1, PY3)
            IN  /\ res.err = "ok"
                /\ res.bytes = file_bytes(buf.path, buf.ofs + i,
                                          buf.ofs + buf.size)

C30_FailedReadLeavesBufferReleasable ==
    (/\ last.op \in {"getitem", "getslice"}
     /\ last.err \notin {"ok", "AssertionError"})
        => /\ buf.c \notin DOMAIN ix_cur_reg
           /\ ix_cur_reg = <<>>
           /\ buf_release(Mman, buf).err = "ok"

\* C31: after a scope of _cursor_bound whose body was reached, whether the
\* body completed or raised, the cursor the scope bound is not in ix_cur_reg.
C31_ScopedBindingReleased ==
    (last.op = "cursor_bound" /\ last.held = 1)
        => last.c \notin DOMAIN ix_cur_reg

\* C32: in every reachable state of an open manager, num_open_files is the
\* number of distinct files that have at least one open region.
C32_OpenFilesCountsFiles ==
    ~closed =>
        num_open_files(Mman) =
            Cardinality({ix_reg_mmap[i].path : i \in DOMAIN ix_reg_mmap})

\* C33: in every reachable state of an open manager and for every need from
\* 1 to the largest file size, _purge_lru_regions(need) closes no region
\* when mapped_memory_size + need <= max_memory_size and num_open_regions <
\* max_regions_count hold, the exact fit mapped_memory_size + need =
\* max_memory_size included.
C33_NoEvictionWithinBudget ==
    ~closed =>
        \A need \in 1..MaxFileSize :
            (/\ mapped_memory_size(Mman) + need <= max_memory_size
             /\ num_open_regions(Mman) < max_regions_count)
                => /\ purge_lru_regions(Mman, need).num_found = 0
                   /\ purge_lru_regions(Mman, need).m.ix_reg_mmap = ix_reg_mmap

\* C34: a make_cursor that succeeds for an offset lying inside a region of
\* the file that was open before the call binds the new cursor to such a
\* region, leaves num_open_regions and mapped_memory_size unchanged, and
\* leaves that region at the most-recently-used end of ix_reg_mmap.
C34_LookupReusesRegion ==
    [][(/\ last'.op = "make_cursor"
        /\ last'.err = "ok"
        /\ \E i \in DOMAIN ix_reg_mmap :
                /\ ix_reg_mmap[i].path = last'.sel.path
                /\ includes_ofs(ix_reg_mmap[i], last'.offset))
        => /\ Len(ix_reg_mmap') = Len(ix_reg_mmap)
           /\ SumSizes(ix_reg_mmap') = SumSizes(ix_reg_mmap)
           /\ \E i \in DOMAIN ix_reg_mmap :
                /\ ix_reg_mmap[i].path = last'.sel.path
                /\ ix_reg_mmap[i].ofs = last'.sel.ofs
                /\ ix_reg_mmap[i].size = last'.sel.size
           /\ last'.sel.id = Len(ix_reg_mmap')
           /\ ix_cur_reg'[last'.c].region = Len(ix_reg_mmap')]_vars

\* C35: in every reachable state of an open manager, that is after every
\* completed make_cursor, buffer construction, release and collect, a path has
\* a FileInfo in ix_path_finfo exactly when ix_reg_mmap holds a region with
\* that FileInfo.
C35_PathIndexMatchesRegions ==
    ~closed =>
        /\ \A i \in DOMAIN ix_reg_mmap :
                ix_path_finfo[ix_reg_mmap[i].path] = ix_reg_mmap[i].finfo
        /\ \A p \in Paths :
                ix_path_finfo[p] # NoFinfo
                    => \E i \in DOMAIN ix_reg_mmap :
                            ix_reg_mmap[i].finfo = ix_path_finfo[p]

\* C36: when the mmap refuses to close while a region is released, both
\* indexes hold what they held before the release, in the same order: the
\* region is still registered, its path holds the FileInfo it held, and a
\* release of the region whose mmap then closes succeeds
C36_FailedCloseRestoresIndexes ==
    [][(last'.op = "release_region" /\ last'.err = "Exception") =>
            /\ ix_reg_mmap' = ix_reg_mmap
            /\ ix_path_finfo' = ix_path_finfo
            /\ last'.sel \in Range(ix_reg_mmap')
            /\ release_region_closing(
                    [ix_path_finfo |-> ix_path_finfo', ix_reg_mmap |-> ix_reg_mmap',
                     ix_cur_reg |-> ix_cur_reg', touched |-> touched'],
                    last'.sel.id, FALSE).err = "ok"]_vars
\* a release failed on the close of the last region of a file while another
\* file's region is registered as well
C36_Witness ==
    /\ last.op = "release_region"
    /\ last.err = "Exception"
    /\ Len(ix_reg_mmap) = 2
    /\ last.sel \in Range(ix_reg_mmap)
    /\ regions_for_finfo(Mman, last.sel.finfo) = <<last.sel>>


\* C37: in a one-to-one Relation the inverse map holds v -> k exactly when
\* the forward map holds k -> v, and a value that no key is mapped to can be
\* put under any key that is not mapped
inverse_consistent(r) ==
    \A k \in RelKeys, v \in RelValues :
        (dict_get(r.rel, k) = v) <=> (dict_get(r.inv, v) = k)
C37_InverseConsistent ==
    relation.one2one =>
        /\ inverse_consistent(relation)
        /\ \A k \in RelKeys \ {None}, v \in RelValues \ {None} :
                (/\ dict_get(relation.rel, k) = MISSING
                 /\ \A e \in Range(relation.rel) : e.v # v)
                => Relation_put(relation, k, v).err = "ok"


\* C38: after w.extend_left_to(l, max_size), with l ending at w.ofs or
\* before, the window starts no earlier than l ends, ends where it ended and
\* contains the whole old window; a second call with the same arguments
\* changes nothing
C38_ExtendLeftKeepsWindow ==
    /\ win.calls >= 1 =>
            /\ win.w.ofs >= ofs_end(win.window)
            /\ ofs_end(win.w) = ofs_end(win.start)
            /\ win.w.ofs <= win.start.ofs
    /\ win.calls = 2 => win.w = win.prev


\* C39: in every reachable state with an open buffer of length size, every
\* sliced read [i, j) with 0 <= i <= j <= size ends: no turn of the slow
\* path binds a cursor that yields no byte, so the loop binds at most j - i
\* cursors, whatever regions are open.
C39_SlicedReadTerminates ==
    buf_open =>
        \A i \in 0..buf.size : \A j \in i..buf.size :
            /\ buf_getslice(Mman, buf, i, j).err # "NoProgress"
            /\ getslice_turns(Mman, buf, i, j) <= j - i
\* a sliced read of four bytes through windows of two bytes took the slow
\* path and returned the four bytes, leaving the buffer on the last window
C39_Witness ==
    /\ last.op = "getslice"
    /\ last.err = "ok"
    /\ window_size = 2
    /\ Len(ix_reg_mmap) = 2
    /\ last.stop - last.offset = 4
    /\ Len(last.bytes) = 4
    /\ ix_cur_reg[buf.c].ofs > last.offset


====
